---- MODULE Spec2Model ----
(***************************************************************************)
(* thrift-yield-api: the investment REST API (Django REST framework).      *)
(*                                                                         *)
(* The store is the tables of core/models.py (User, Investment, Tag, the    *)
(* Investment.tags join table, Activity) with the auto-increment keys of   *)
(* the four the API writes.  Every API request is one action that runs the *)
(* whole handler: routing, get_object, validation, the serializer's        *)
(* create/update with its nested reconciliation, and the response.         *)
(* Nothing in the views or serializers opens a transaction, so every ORM   *)
(* call is its own committed store step (Django's autocommit): a handler   *)
(* that raises half way leaves the steps it already made.                  *)
(***************************************************************************)
EXTENDS Integers, Sequences, FiniteSets, TLC

\* ------------------------------------------------------------------ bounds
MaxInvestments == 2     \* Investment rows ever created
MaxTags        == 3     \* Tag rows ever created
MaxActivities  == 3     \* Activity rows ever created
MaxRequests    == 3     \* requests served in one behaviour
MaxEmailLen    == 3     \* characters of an email address given to create_user

\* The keys of the rows of core.User (users are created outside this API).
Users == {"u1", "u2"}

\* ---------------------------------------------------------------- helpers
Range(s) == {s[i] : i \in DOMAIN s}

Has(d, k) == k \in DOMAIN d

\* dict.pop(k, default) / dict.get(k, default)
Get(d, k, default) == IF k \in DOMAIN d THEN d[k] ELSE default

\* a dict restricted to some of its keys
Restrict(d, keys) == [k \in (DOMAIN d) \cap keys |-> d[k]]

\* the empty dict {}
EmptyDict == [k \in {} |-> ""]

\* a sequence of ids in descending order of key(id): QuerySet.order_by('-key')
RECURSIVE OrderDesc(_, _)
OrderDesc(S, key) ==
    IF S = {} THEN <<>>
    ELSE LET m == CHOOSE x \in S : \A y \in S :
                      key[y] < key[x] \/ (key[y] = key[x] /\ y <= x)
         IN  <<m>> \o OrderDesc(S \ {m}, key)

\* ------------------------------------------------------------------ state
VARIABLES
    users,             \* User rows: key -> email (a sequence of characters)
    investments,       \* Investment rows: id -> [user, ticker, link, image]
    tags,              \* Tag rows: id -> [name, user]
    investment_tags,   \* rows of the Investment.tags join table: <<investment id, tag id>>
    activities,        \* Activity rows: id -> [user, investment, trade_date, ...]
    seq,               \* the last key each table's AutoField has handed out
    last,              \* the last request and the response it got
    served,            \* how many requests have been served
    inflight           \* the update requests being served concurrently, each
                       \* at a store step of its handler

vars == <<users, investments, tags, investment_tags, activities, seq, last, served, inflight>>

\* The store as one value, for the operators that run a handler's store steps.
DB == [investments |-> investments, tags |-> tags,
       investment_tags |-> investment_tags, activities |-> activities, seq |-> seq]

NoImage == "null"      \* Investment.image is NULL

\* --------------------------------------------------------- core/models.py
\* str.lower() on the characters the model uses
Lower(c) == CASE c = "A" -> "a" [] c = "E" -> "e" [] c = "T" -> "t" [] OTHER -> c

\* email.rsplit('@', 1): the index of the last '@', 0 when there is none
LastAt(email) ==
    LET at == {i \in DOMAIN email : email[i] = "@"}
    IN  IF at = {} THEN 0 ELSE CHOOSE i \in at : \A j \in at : j <= i

\* a mutation of NormalizeEmail: the whole address is lower-cased
NormalizeEmail_LowerAll(email) == [i \in DOMAIN email |-> Lower(email[i])]

\* BaseUserManager.normalize_email, as create_user calls it: the part after
\* the last '@' is lower-cased, an address without '@' is returned as it is
\* (the addresses of the model carry no surrounding whitespace)
NormalizeEmail(email) ==
    LET at == LastAt(email)
    IN  IF at = 0 THEN email
        ELSE SubSeq(email, 1, at - 1) \o <<"@">>
                \o [i \in 1..(Len(email) - at) |-> Lower(email[at + i])]

\* UserManager.create_user: the exception it raises ("" when it returns) and
\* the User table it leaves; User.email is unique
CreateUserRun(table, key, email) ==
    IF email = <<>> THEN [users |-> table, exc |-> "ValueError"]
    ELSE IF \E u \in DOMAIN table : table[u] = NormalizeEmail(email)
    THEN [users |-> table, exc |-> "IntegrityError"]
    ELSE [users |-> [u \in DOMAIN table \cup {key} |->
                        IF u = key THEN NormalizeEmail(email) ELSE table[u]],
          exc |-> ""]

\* User.delete(): on_delete=CASCADE on Investment.user, Tag.user and
\* Activity.user removes the rows the user owns, and with them the Activity
\* rows of those investments and the join rows of those investments and tags
UserCascade(db, user) ==
    LET invs == {i \in DOMAIN db.investments : db.investments[i].user # user}
        tgs == {t \in DOMAIN db.tags : db.tags[t].user # user}
        acts == {a \in DOMAIN db.activities :
                    db.activities[a].user # user /\ db.activities[a].investment \in invs}
    IN  [db EXCEPT !.investments = [i \in invs |-> db.investments[i]],
                   !.tags = [t \in tgs |-> db.tags[t]],
                   !.investment_tags = {r \in db.investment_tags :
                                           r[1] \in invs /\ r[2] \in tgs},
                   !.activities = [a \in acts |-> db.activities[a]]]

ACTIVITY_CHOICES == {"BUY", "SELL"}

\* Tag.objects.create(user=..., **tag_data): name is a CharField, '' when not given
TagCreate(db, user, tag_data) ==
    LET id == db.seq.tag + 1
    IN  [db EXCEPT !.seq.tag = id,
                   !.tags = [t \in DOMAIN db.tags \cup {id} |->
                                IF t = id
                                THEN [name |-> Get(tag_data, "name", ""), user |-> user]
                                ELSE db.tags[t]]]

\* a mutation of TagMatches: the lookup does not filter on the owner
TagMatches_AnyUser(db, user, tag_data) ==
    {t \in DOMAIN db.tags : Has(tag_data, "name") => db.tags[t].name = tag_data.name}

\* the Tag rows that match user=user, **tag_data
TagMatches(db, user, tag_data) ==
    {t \in DOMAIN db.tags :
        /\ db.tags[t].user = user
        /\ Has(tag_data, "name") => db.tags[t].name = tag_data.name}

\* Activity columns that are NOT NULL and have no default
ActivityNotNull == {"trade_date", "shares", "cost_per_share"}

\* Activity.objects.create(user=, investment=, **activity_data) raises
\* IntegrityError when a NOT NULL column gets no value
ActivityCreateFails(activity_data) == ~(ActivityNotNull \subseteq DOMAIN activity_data)

\* a mutation of ActivityCreate: get-or-create, an equal row is reused
ActivityCreate_Reuse(db, user, inv, activity_data) ==
    LET id == db.seq.activity + 1
        row == [user |-> user, investment |-> inv,
                trade_date |-> activity_data.trade_date,
                shares |-> activity_data.shares,
                cost_per_share |-> activity_data.cost_per_share,
                activity_type |-> Get(activity_data, "activity_type", "")]
    IN  IF \E a \in DOMAIN db.activities : db.activities[a] = row THEN db
        ELSE [db EXCEPT !.seq.activity = id,
                        !.activities = [a \in DOMAIN db.activities \cup {id} |->
                                           IF a = id THEN row ELSE db.activities[a]]]

ActivityCreate(db, user, inv, activity_data) ==
    LET id == db.seq.activity + 1
        row == [user |-> user, investment |-> inv,
                trade_date |-> activity_data.trade_date,
                shares |-> activity_data.shares,
                cost_per_share |-> activity_data.cost_per_share,
                activity_type |-> Get(activity_data, "activity_type", "")]
    IN  [db EXCEPT !.seq.activity = id,
                   !.activities = [a \in DOMAIN db.activities \cup {id} |->
                                      IF a = id THEN row ELSE db.activities[a]]]

\* Investment.objects.create(**validated_data): link is blank '' and image NULL
\* when not given
InvestmentCreateRow(db, validated_data) ==
    LET id == db.seq.investment + 1
        row == [user |-> validated_data.user, ticker |-> validated_data.ticker,
                link |-> Get(validated_data, "link", ""), image |-> NoImage]
    IN  [db EXCEPT !.seq.investment = id,
                   !.investments = [i \in DOMAIN db.investments \cup {id} |->
                                       IF i = id THEN row ELSE db.investments[i]]]

\* a mutation of InvestmentDelete: the Activity rows of the investment stay
InvestmentDelete_NoCascade(db, id) ==
    [db EXCEPT !.investments = [i \in DOMAIN db.investments \ {id} |-> db.investments[i]],
               !.investment_tags = {r \in db.investment_tags : r[1] # id}]

\* Investment.delete(): on_delete=CASCADE removes the Activity rows that refer
\* to it, and the join rows of its tags go with it; Tag rows stay
InvestmentDelete(db, id) ==
    LET keep == {a \in DOMAIN db.activities : db.activities[a].investment # id}
    IN  [db EXCEPT !.investments = [i \in DOMAIN db.investments \ {id} |-> db.investments[i]],
                   !.investment_tags = {r \in db.investment_tags : r[1] # id},
                   !.activities = [a \in keep |-> db.activities[a]]]

\* Tag.delete(): its join rows go with it
TagDelete(db, id) ==
    [db EXCEPT !.tags = [t \in DOMAIN db.tags \ {id} |-> db.tags[t]],
               !.investment_tags = {r \in db.investment_tags : r[2] # id}]

\* investment.tags.all() / investment.activities.all()
TagsOf(db, inv) == {r[2] : r \in {x \in db.investment_tags : x[1] = inv}}
ActivitiesOf(db, inv) == {a \in DOMAIN db.activities : db.activities[a].investment = inv}

\* ------------------------------------------------- investment/serializers.py
\* A handler's run through the store: the store it leaves and the exception
\* that ended it ("" when it ran to its end).
NoExc == ""
Ran(db) == [db |-> db, exc |-> NoExc]
Raised(db, e) == [db |-> db, exc |-> e]

\* a mutation of GetOrCreate: no lookup, every descriptor creates a Tag
GetOrCreate_AlwaysCreate(db, auth_user, tag_data) ==
    [db |-> TagCreate(db, auth_user, tag_data), exc |-> "", tag |-> db.seq.tag + 1]

\* Tag.objects.get_or_create(user=auth_user, **tag_data): get() raises
\* MultipleObjectsReturned when more than one row matches
GetOrCreate(db, auth_user, tag_data) ==
    LET m == TagMatches(db, auth_user, tag_data)
    IN  IF Cardinality(m) > 1 THEN [db |-> db, exc |-> "MultipleObjectsReturned", tag |-> 0]
        ELSE IF m = {} THEN [db |-> TagCreate(db, auth_user, tag_data), exc |-> NoExc,
                             tag |-> db.seq.tag + 1]
        ELSE [db |-> db, exc |-> NoExc, tag |-> CHOOSE t \in m : TRUE]

\* investment.tags.add(tag_obj): the join table holds a pair once
TagsAdd(db, inv, tag) == [db EXCEPT !.investment_tags = @ \cup {<<inv, tag>>}]

\* a mutation of TagsClear: nothing is removed
TagsClear_Noop(db, inv) == db

\* a mutation of TagsClear: a Tag left with no investment is deleted
TagsClear_DropOrphans(db, inv) ==
    LET rows == {r \in db.investment_tags : r[1] # inv}
        keep == {t \in DOMAIN db.tags : \E r \in rows : r[2] = t}
    IN  [db EXCEPT !.investment_tags = rows, !.tags = [t \in keep |-> db.tags[t]]]

\* investment.tags.clear()
TagsClear(db, inv) == [db EXCEPT !.investment_tags = {r \in @ : r[1] # inv}]

\* InvestmentSerializer._get_or_create_tags
RECURSIVE GetOrCreateTags(_, _, _, _)
GetOrCreateTags(db, auth_user, tags_data, inv) ==
    IF tags_data = <<>> THEN Ran(db)
    ELSE LET g == GetOrCreate(db, auth_user, Head(tags_data))
         IN  IF g.exc # NoExc THEN Raised(g.db, g.exc)
             ELSE GetOrCreateTags(TagsAdd(g.db, inv, g.tag), auth_user, Tail(tags_data), inv)

\* InvestmentSerializer._create_activities
RECURSIVE CreateActivities(_, _, _, _)
CreateActivities(db, auth_user, activities_data, inv) ==
    IF activities_data = <<>> THEN Ran(db)
    ELSE IF ActivityCreateFails(Head(activities_data)) THEN Raised(db, "IntegrityError")
    ELSE CreateActivities(ActivityCreate(db, auth_user, inv, Head(activities_data)),
                          auth_user, Tail(activities_data), inv)

\* the model fields a validated payload can carry besides the nested lists
ScalarFields == {"ticker", "link"}

\* InvestmentSerializer.create (validated_data carries user=request.user, put
\* there by serializer.save(user=...) in perform_create)
SerializerCreate(db, auth_user, validated_data) ==
    LET tags_data == Get(validated_data, "tags", <<>>)
        activities_data == Get(validated_data, "activities", <<>>)
        inv == db.seq.investment + 1
        d1 == InvestmentCreateRow(db, Restrict(validated_data, ScalarFields \cup {"user"}))
        r2 == GetOrCreateTags(d1, auth_user, tags_data, inv)
    IN  IF r2.exc # NoExc THEN r2
        ELSE CreateActivities(r2.db, auth_user, activities_data, inv)

\* setattr(instance, attr, value) for the scalar items; instance.save()
\* writes every column of the instance the view loaded
InstanceSave(db, id, instance, validated_data) ==
    [db EXCEPT !.investments[id] =
        [f \in DOMAIN instance |->
            IF f \in DOMAIN validated_data /\ f \in ScalarFields
            THEN validated_data[f] ELSE instance[f]]]

\* a mutation of SerializerUpdate: tags defaults to [] (as in create) instead
\* of None, so a body without tags clears them
SerializerUpdate_TagsDefaultEmpty(db, auth_user, id, instance, validated_data) ==
    LET r1 == GetOrCreateTags(TagsClear(db, id), auth_user,
                              Get(validated_data, "tags", <<>>), id)
        r2 == IF r1.exc # NoExc THEN r1
              ELSE IF Has(validated_data, "activities")
              THEN CreateActivities(r1.db, auth_user, validated_data.activities, id)
              ELSE r1
    IN  IF r2.exc # NoExc THEN r2
        ELSE Ran(InstanceSave(r2.db, id, instance, validated_data))

\* InvestmentSerializer.update
SerializerUpdate(db, auth_user, id, instance, validated_data) ==
    LET r1 == IF Has(validated_data, "tags")
              THEN GetOrCreateTags(TagsClear(db, id), auth_user, validated_data.tags, id)
              ELSE Ran(db)
        r2 == IF r1.exc # NoExc THEN r1
              ELSE IF Has(validated_data, "activities")
              THEN CreateActivities(r1.db, auth_user, validated_data.activities, id)
              ELSE r1
    IN  IF r2.exc # NoExc THEN r2
        ELSE Ran(InstanceSave(r2.db, id, instance, validated_data))

\* --- validation (serializer.is_valid): a field the payload lacks is an error
\* when it is required, unless the root serializer is partial (PATCH), which
\* skips every absent field, those of the nested serializers too.
TagFields == {"name"}
ActivityFields == {"trade_date", "shares", "cost_per_share", "activity_type"}

\* TagSerializer: name is required and may not be blank
TagDataValid(partial, d) ==
    /\ ~Has(d, "name") => partial
    /\ Has(d, "name") => d.name # ""

\* ActivitySerializer: the four fields are required; activity_type is a choice
ActivityDataValid(partial, d) ==
    /\ \A f \in ActivityFields : ~Has(d, f) => partial
    /\ Has(d, "activity_type") => d.activity_type \in ACTIVITY_CHOICES

\* InvestmentSerializer / InvestmentDetailSerializer: ticker is required and
\* may not be blank, link may be blank, tags and activities are not required
InvestmentDataValid(partial, data) ==
    /\ ~Has(data, "ticker") => partial
    /\ Has(data, "ticker") => data.ticker # ""
    /\ Has(data, "tags") => \A i \in DOMAIN data.tags : TagDataValid(partial, data.tags[i])
    /\ Has(data, "activities") =>
          \A i \in DOMAIN data.activities : ActivityDataValid(partial, data.activities[i])

\* serializer.validated_data: only the serializer's writable fields ('user'
\* and 'id' are not among them and are dropped)
InvestmentValidated(data) ==
    [k \in (DOMAIN data) \cap (ScalarFields \cup {"tags", "activities"}) |->
        IF k = "tags" THEN [i \in DOMAIN data.tags |-> Restrict(data.tags[i], TagFields)]
        ELSE IF k = "activities"
             THEN [i \in DOMAIN data.activities |-> Restrict(data.activities[i], ActivityFields)]
        ELSE data[k]]

\* InvestmentImageSerializer: image is required; the model's null=True makes
\* the field accept null; anything else must be an image file
ImageDataValid(data) ==
    /\ Has(data, "image")
    /\ data.image # "notanimage"

\* ------------------------------------------------------ investment/views.py
\* What a response shows: the rows listed, in order, and every row whose
\* data the response carries (the investment serializers nest the tags and
\* the activities of each investment).
NoBody == [list |-> <<>>, investments |-> {}, tags |-> {}, activities |-> {}]

InvestmentBody(db, ids) ==
    [list |-> ids, investments |-> Range(ids),
     tags |-> UNION {TagsOf(db, i) : i \in Range(ids)},
     activities |-> UNION {ActivitiesOf(db, i) : i \in Range(ids)}]

TagBody(ids) == [list |-> ids, investments |-> {}, tags |-> Range(ids), activities |-> {}]

\* Tag names in ascending order, for order_by('-name')
NameOrder == <<"", "A", "B">>
NameRank(n) == CHOOSE i \in DOMAIN NameOrder : NameOrder[i] = n

\* a mutation of InvestmentQueryset: the filter on the owner is missing
InvestmentQueryset_Unscoped(db, user) ==
    OrderDesc(DOMAIN db.investments, [i \in DOMAIN db.investments |-> i])

\* InvestmentViewSet.get_queryset: filter(user=request.user).order_by('-id')
InvestmentQueryset(db, user) ==
    OrderDesc({i \in DOMAIN db.investments : db.investments[i].user = user},
              [i \in DOMAIN db.investments |-> i])

\* TagViewSet.get_queryset: filter(user=request.user).order_by('-name')
TagQueryset(db, user) ==
    OrderDesc({t \in DOMAIN db.tags : db.tags[t].user = user},
              [t \in DOMAIN db.tags |-> NameRank(db.tags[t].name)])

\* ActivityViewSet.get_queryset: filter(user=request.user)
ActivityQueryset(db, user) ==
    {a \in DOMAIN db.activities : db.activities[a].user = user}

\* investment/urls.py: the router registers 'investments' and 'tags'
Routed == {"investments", "tags"}

\* the store and the response an action leaves
Finish(db, op, user, pk, data, status, body) ==
    /\ served' = served + 1
    /\ UNCHANGED <<inflight, users>>
    /\ db.seq.investment <= MaxInvestments
    /\ db.seq.tag <= MaxTags
    /\ db.seq.activity <= MaxActivities
    /\ investments' = db.investments
    /\ tags' = db.tags
    /\ investment_tags' = db.investment_tags
    /\ activities' = db.activities
    /\ seq' = db.seq
    /\ last' = [op |-> op, user |-> user, pk |-> pk, data |-> data,
                status |-> status, body |-> body]

\* GET /investments/
InvestmentList(user) ==
    Finish(DB, "investment-list", user, 0, EmptyDict, 200,
           InvestmentBody(DB, InvestmentQueryset(DB, user)))

\* GET /investments/{pk}/
InvestmentRetrieve(user, pk) ==
    IF pk \notin Range(InvestmentQueryset(DB, user))
    THEN Finish(DB, "investment-retrieve", user, pk, EmptyDict, 404, NoBody)
    ELSE Finish(DB, "investment-retrieve", user, pk, EmptyDict, 200,
                InvestmentBody(DB, <<pk>>))

\* a mutation of PerformCreate: the owner comes from the body when it names one
PerformCreate_OwnerFromBody(user, data) ==
    [k \in DOMAIN InvestmentValidated(data) \cup {"user"} |->
        IF k = "user" THEN Get(data, "user", user) ELSE InvestmentValidated(data)[k]]

\* InvestmentViewSet.perform_create: serializer.save(user=self.request.user)
\* hands create() the validated data with user set to the requester
PerformCreate(user, data) ==
    [k \in DOMAIN InvestmentValidated(data) \cup {"user"} |->
        IF k = "user" THEN user ELSE InvestmentValidated(data)[k]]

\* POST /investments/ : CreateModelMixin.create
InvestmentCreate(user, data) ==
    IF ~InvestmentDataValid(FALSE, data)
    THEN Finish(DB, "investment-create", user, 0, data, 400, NoBody)
    ELSE LET new == seq.investment + 1
             r == SerializerCreate(DB, user, PerformCreate(user, data))
         IN  IF r.exc # NoExc
             THEN Finish(r.db, "investment-create", user, 0, data, 500, NoBody)
             ELSE Finish(r.db, "investment-create", user, new, data, 201,
                         InvestmentBody(r.db, <<new>>))

\* PUT (partial = FALSE) and PATCH (partial = TRUE) /investments/{pk}/ :
\* UpdateModelMixin.update: get_object, is_valid, perform_update
UpdateHandler(db, user, pk, partial, data) ==
    IF pk \notin Range(InvestmentQueryset(db, user)) THEN [db |-> db, status |-> 404]
    ELSE IF ~InvestmentDataValid(partial, data) THEN [db |-> db, status |-> 400]
    ELSE LET r == SerializerUpdate(db, user, pk, db.investments[pk],
                                   InvestmentValidated(data))
         IN  [db |-> r.db, status |-> IF r.exc # NoExc THEN 500 ELSE 200]

InvestmentUpdate(user, pk, partial, data) ==
    LET h == UpdateHandler(DB, user, pk, partial, data)
    IN  Finish(h.db, IF partial THEN "investment-partial-update" ELSE "investment-update",
               user, pk, data, h.status,
               IF h.status = 200 THEN InvestmentBody(h.db, <<pk>>) ELSE NoBody)

\* DELETE /investments/{pk}/
InvestmentDestroy(user, pk) ==
    IF pk \notin Range(InvestmentQueryset(DB, user))
    THEN Finish(DB, "investment-destroy", user, pk, EmptyDict, 404, NoBody)
    ELSE Finish(InvestmentDelete(DB, pk), "investment-destroy", user, pk, EmptyDict,
                204, NoBody)

\* the path investment_image_file_path generates for an upload: a fresh uuid4
\* with the extension of the uploaded file
ImagePaths == {"uploads/investment/uuid-a.jpg", "uploads/investment/uuid-b.jpg"}

\* POST /investments/{pk}/upload-image/
UploadImage(user, pk, data, path) ==
    IF pk \notin Range(InvestmentQueryset(DB, user))
    THEN Finish(DB, "investment-upload-image", user, pk, data, 404, NoBody)
    ELSE IF ~ImageDataValid(data)
    THEN Finish(DB, "investment-upload-image", user, pk, data, 400, NoBody)
    ELSE Finish([DB EXCEPT !.investments[pk].image =
                    IF data.image = "null" THEN NoImage ELSE path],
                "investment-upload-image", user, pk, data, 200, NoBody)

\* GET /tags/
TagList(user) ==
    Finish(DB, "tag-list", user, 0, EmptyDict, 200, TagBody(TagQueryset(DB, user)))

\* GET /tags/{pk}/ : BaseInvestmentAttrViewSet has no RetrieveModelMixin, so
\* the detail route binds put, patch and delete only
TagRetrieve(user, pk) ==
    Finish(DB, "tag-retrieve", user, pk, EmptyDict, 405, NoBody)

\* PUT and PATCH /tags/{pk}/ : UpdateModelMixin with TagSerializer
TagUpdate(user, pk, partial, data) ==
    LET op == IF partial THEN "tag-partial-update" ELSE "tag-update"
    IN  IF pk \notin Range(TagQueryset(DB, user))
        THEN Finish(DB, op, user, pk, data, 404, NoBody)
        ELSE IF ~TagDataValid(partial, data)
        THEN Finish(DB, op, user, pk, data, 400, NoBody)
        ELSE Finish([DB EXCEPT !.tags[pk].name = Get(data, "name", @)],
                    op, user, pk, data, 200, TagBody(<<pk>>))

\* DELETE /tags/{pk}/
TagDestroy(user, pk) ==
    IF pk \notin Range(TagQueryset(DB, user))
    THEN Finish(DB, "tag-destroy", user, pk, EmptyDict, 404, NoBody)
    ELSE Finish(TagDelete(DB, pk), "tag-destroy", user, pk, EmptyDict, 204, NoBody)

\* any request under /activities/ : ActivityViewSet is defined but the router
\* does not register it, so no URL pattern matches
ActivityRequest(user, op, pk) ==
    IF "activities" \notin Routed
    THEN Finish(DB, op, user, pk, EmptyDict, 404, NoBody)
    ELSE Finish(DB, op, user, pk, EmptyDict, 200,
                [NoBody EXCEPT !.activities = ActivityQueryset(DB, user)])

\* the URL patterns of the API, by route name
Endpoints ==
    {"investment-list", "investment-detail", "investment-upload-image",
     "tag-list", "tag-detail", "activity-list", "activity-detail"}
Methods == {"GET", "POST", "PATCH", "DELETE"}

\* the router prefix an endpoint lies under
Prefix(endpoint) ==
    CASE endpoint \in {"investment-list", "investment-detail", "investment-upload-image"}
            -> "investments"
      [] endpoint \in {"tag-list", "tag-detail"} -> "tags"
      [] OTHER -> "activities"

Anonymous == "anonymous"

\* a request without a valid token: URL resolution comes first (404 when no
\* pattern matches); the view's initial() then runs TokenAuthentication and
\* IsAuthenticated, which answer 401 before the method's handler is looked up
Unauthenticated(endpoint, method, pk) ==
    Finish(DB, "unauthenticated", Anonymous, pk,
           [endpoint |-> endpoint, method |-> method],
           IF Prefix(endpoint) \in Routed THEN 401 ELSE 404, NoBody)

\* a User row is deleted (User.delete(), e.g. from the admin site)
UserDelete(user) ==
    LET db == UserCascade(DB, user)
    IN  /\ users' = [u \in DOMAIN users \ {user} |-> users[u]]
        /\ investments' = db.investments
        /\ tags' = db.tags
        /\ investment_tags' = db.investment_tags
        /\ activities' = db.activities
        /\ seq' = db.seq
        /\ last' = [op |-> "user-delete", user |-> user, pk |-> 0, data |-> EmptyDict,
                    status |-> 0, body |-> NoBody]
        /\ served' = served + 1
        /\ UNCHANGED inflight

\* get_user_model().objects.create_user(email, password)
CreateUser(email) ==
    /\ DOMAIN users # Users
    /\ LET key == CHOOSE u \in Users \ DOMAIN users : TRUE
           r == CreateUserRun(users, key, email)
       IN  /\ users' = r.users
           /\ last' = [op |-> "create-user", user |-> key, pk |-> 0,
                       data |-> [email |-> email, raised |-> r.exc],
                       status |-> 0, body |-> NoBody]
    /\ UNCHANGED <<investments, tags, investment_tags, activities, seq, served, inflight>>

\* ----------------------------------------------------------------- inputs
\* The request bodies the model sends.  A body is a dict: a key it lacks is
\* a field the client did not send.
TagNames == {"A", "B"}

Named(n) == [name |-> n]

\* the `tags` lists: none, one, two different, one name twice, and a
\* descriptor without a name
TagLists ==
    { <<>>, <<Named("A")>>, <<Named("A"), Named("B")>>,
      <<Named("A"), Named("A")>>, <<EmptyDict>> }

Buy == [trade_date |-> 30, shares |-> 10, cost_per_share |-> 5, activity_type |-> "BUY"]
Without(d, k) == [f \in DOMAIN d \ {k} |-> d[f]]

NoShares == Without(Buy, "shares")
NoType == Without(Buy, "activity_type")
Hold == [Buy EXCEPT !.activity_type = "HOLD"]

\* the `activities` lists: valid ones (one with a repeated descriptor), and
\* descriptors that lack a field or carry a type outside the choices
ActivityLists == { <<Buy>>, <<Buy, Buy>>, <<NoShares>>, <<NoType>>, <<Hold>> }

\* a dict from the given keys, each with zero or one value
Dict(ticker, link, user, tgs, acts) ==
    LET val(k) == CASE k = "ticker" -> ticker [] k = "link" -> link [] k = "user" -> user
                    [] k = "tags" -> tgs [] k = "activities" -> acts
    IN  [k \in {x \in {"ticker", "link", "user", "tags", "activities"} : val(x) # {}} |->
            CHOOSE v \in val(k) : TRUE]

\* bodies with nested lists: tags alone, activities alone, and a valid tags
\* list together with a valid, a failing and an invalid activities list
NestedBodies(t) ==
    {Dict(t, {}, {}, {g}, {}) : g \in TagLists}
    \cup {Dict(t, {}, {}, {}, {a}) : a \in ActivityLists}
    \cup {Dict(t, {}, {}, {<<Named("A")>>}, {a}) : a \in {<<Buy>>, <<NoShares>>, <<Hold>>}}

\* POST /investments/ bodies: without ticker, with it, with a link, with a
\* `user` field, and with nested lists
CreateBodies ==
    { EmptyDict, Dict({"TSLA"}, {}, {}, {}, {}), Dict({"TSLA"}, {"L1"}, {}, {}, {}),
      Dict({"TSLA"}, {}, {"u2"}, {}, {}) }
    \cup NestedBodies({"TSLA"})

\* PATCH /investments/{pk}/ bodies
PatchBodies ==
    { EmptyDict, Dict({"AAPL"}, {}, {}, {}, {}), Dict({}, {"L2"}, {}, {}, {}),
      Dict({}, {}, {"u2"}, {}, {}) }
    \cup NestedBodies({})

\* PUT /investments/{pk}/ bodies
PutBodies ==
    { EmptyDict, Dict({"AAPL"}, {}, {}, {}, {}), Dict({"AAPL"}, {"L2"}, {}, {}, {}),
      Dict({"AAPL"}, {}, {}, {<<Named("A")>>}, {}),
      Dict({"AAPL"}, {}, {}, {<<EmptyDict>>}, {}),
      Dict({"AAPL"}, {}, {}, {}, {<<NoShares>>}) }

\* the update requests: <<partial, body>>
UpdateRequests == ({TRUE} \X PatchBodies) \cup ({FALSE} \X PutBodies)

\* POST /investments/{pk}/upload-image/ bodies
ImageBodies == {EmptyDict, [image |-> "null"], [image |-> "notanimage"], [image |-> "jpeg"]}

\* PUT and PATCH /tags/{pk}/ requests: <<partial, body>>
TagUpdateRequests ==
    ({TRUE} \X ({EmptyDict} \cup {Named(n) : n \in TagNames \cup {""}}))
    \cup ({FALSE} \X {EmptyDict, Named("A")})

\* the email addresses given to create_user: every string of up to
\* MaxEmailLen characters over a lower-case letter, an upper-case letter and
\* '@', and the address of the model tests
Alphabet == {"a", "A", "@"}
SampleEmail ==
    <<"T", "e", "s", "t", "2", "@", "E", "x", "a", "m", "p", "l", "e", ".", "c", "o", "m">>
Emails == UNION {[1..n -> Alphabet] : n \in 0..MaxEmailLen} \cup {SampleEmail}

\* the email addresses of the two users of the API
InitialUsers == [u \in Users |-> IF u = "u1" THEN <<"a", "@", "a">> ELSE <<"A", "@", "a">>]

\* the keys a request may name: those handed out so far and the next one
InvestmentIds == 1..(IF seq.investment < MaxInvestments THEN seq.investment + 1
                     ELSE MaxInvestments)
TagIds == 1..(IF seq.tag < MaxTags THEN seq.tag + 1 ELSE MaxTags)
ActivityIds == 1..(IF seq.activity < MaxActivities THEN seq.activity + 1
                   ELSE MaxActivities)

\* ---------------------------------------------------------- specification
Init ==
    /\ users = InitialUsers
    /\ investments = EmptyDict
    /\ tags = EmptyDict
    /\ investment_tags = {}
    /\ activities = EmptyDict
    /\ seq = [investment |-> 0, tag |-> 0, activity |-> 0]
    /\ last = [op |-> "none", user |-> "u1", pk |-> 0, data |-> EmptyDict,
               status |-> 0, body |-> NoBody]
    /\ served = 0
    /\ inflight = <<>>

\* one request at a time, MaxRequests of them
Serving == served < MaxRequests

Next ==
    \/ Serving /\ \E u \in DOMAIN users : InvestmentList(u)
    \/ Serving /\ \E u \in DOMAIN users, pk \in InvestmentIds : InvestmentRetrieve(u, pk)
    \/ Serving /\ \E u \in DOMAIN users, d \in CreateBodies : InvestmentCreate(u, d)
    \/ Serving /\ \E u \in DOMAIN users, pk \in InvestmentIds, r \in UpdateRequests :
          InvestmentUpdate(u, pk, r[1], r[2])
    \/ Serving /\ \E u \in DOMAIN users, pk \in InvestmentIds : InvestmentDestroy(u, pk)
    \/ Serving /\ \E u \in DOMAIN users, pk \in InvestmentIds, d \in ImageBodies, path \in ImagePaths :
          UploadImage(u, pk, d, path)
    \/ Serving /\ \E u \in DOMAIN users : TagList(u)
    \/ Serving /\ \E u \in DOMAIN users, pk \in TagIds : TagRetrieve(u, pk)
    \/ Serving /\ \E u \in DOMAIN users, pk \in TagIds, r \in TagUpdateRequests :
          TagUpdate(u, pk, r[1], r[2])
    \/ Serving /\ \E u \in DOMAIN users, pk \in TagIds : TagDestroy(u, pk)
    \/ Serving /\ \E u \in DOMAIN users : ActivityRequest(u, "activity-list", 0)
    \/ Serving /\ \E u \in DOMAIN users, pk \in ActivityIds,
          op \in {"activity-retrieve", "activity-partial-update", "activity-destroy"} :
          ActivityRequest(u, op, pk)
    \/ Serving /\ \E e \in Endpoints, m \in Methods :
          Unauthenticated(e, m, IF e \in {"investment-list", "tag-list", "activity-list"}
                                THEN 0 ELSE 1)
    \/ Serving /\ \E u \in DOMAIN users : UserDelete(u)

Spec == Init /\ [][Next]_vars

\* ------------------------------------------------------- user creation
\* The User table is filled by create_user, called with any of the addresses.
UsersInit ==
    /\ users = EmptyDict
    /\ investments = EmptyDict
    /\ tags = EmptyDict
    /\ investment_tags = {}
    /\ activities = EmptyDict
    /\ seq = [investment |-> 0, tag |-> 0, activity |-> 0]
    /\ last = [op |-> "none", user |-> "u1", pk |-> 0, data |-> EmptyDict,
               status |-> 0, body |-> NoBody]
    /\ served = 0
    /\ inflight = <<>>

UsersNext == \E email \in Emails : CreateUser(email)

SpecUsers == UsersInit /\ [][UsersNext]_vars

\* ------------------------------------------------- concurrent updates
\* Two PATCH requests of one user on one investment, served by two workers.
\* Nothing in the handler takes a lock or opens a transaction, so its ORM
\* calls are separate store steps and those of the two requests interleave:
\* get_object (SELECT), tags.clear(), for each tag the get and the create of
\* get_or_create and tags.add, for each activity create, and save (an UPDATE
\* of every column from the instance loaded at the start).

\* the store the two requests find: u1 has investment 1 with the tag "A",
\* as InvestmentSerializer.create leaves it
ConcStore ==
    SerializerCreate([investments |-> EmptyDict, tags |-> EmptyDict, investment_tags |-> {},
                      activities |-> EmptyDict,
                      seq |-> [investment |-> 0, tag |-> 0, activity |-> 0]],
                     "u1", PerformCreate("u1", Dict({"TSLA"}, {}, {}, {<<Named("A")>>}, {}))).db

ConcUser == "u1"
ConcPk == 1

\* the PATCH bodies of the concurrent requests
ConcBodies ==
    { Dict({"AAPL"}, {}, {}, {}, {}), Dict({}, {"L2"}, {}, {}, {}),
      Dict({}, {}, {}, {<<Named("B")>>}, {}), Dict({}, {}, {}, {<<>>}, {}),
      Dict({}, {}, {}, {<<Named("A"), Named("B")>>}, {}),
      Dict({}, {}, {}, {}, {<<Buy>>}) }

Workers == {1, 2}

\* where the handler goes once the tag at index i - 1 is done
AfterTag(r, i) ==
    IF Has(r.data, "tags") /\ i <= Len(r.data.tags) THEN [r EXCEPT !.pc = "get", !.i = i]
    ELSE IF Has(r.data, "activities") /\ r.data.activities # <<>>
    THEN [r EXCEPT !.pc = "activity", !.i = 1]
    ELSE [r EXCEPT !.pc = "save"]

\* where the handler goes once the activity at index i - 1 is done
AfterActivity(r, i) ==
    IF i <= Len(r.data.activities) THEN [r EXCEPT !.pc = "activity", !.i = i]
    ELSE [r EXCEPT !.pc = "save"]

Ended(r, status) == [r EXCEPT !.pc = "done", !.status = status]

\* the next store step of a request: the store and the request after it
Step(db, r) ==
    CASE r.pc = "load" ->
           \* get_object, then is_valid, then update() pops the lists
           IF r.pk \notin Range(InvestmentQueryset(db, r.user))
           THEN [db |-> db, r |-> Ended(r, 404)]
           ELSE IF ~InvestmentDataValid(TRUE, r.data)
           THEN [db |-> db, r |-> Ended(r, 400)]
           ELSE LET l == [r EXCEPT !.instance = db.investments[r.pk]]
                IN  [db |-> db,
                     r |-> IF Has(r.data, "tags") THEN [l EXCEPT !.pc = "clear"]
                           ELSE AfterTag(l, 1)]
      [] r.pc = "clear" ->
           [db |-> TagsClear(db, r.pk), r |-> AfterTag(r, 1)]
      [] r.pc = "get" ->
           LET m == TagMatches(db, r.user, r.data.tags[r.i])
           IN  IF Cardinality(m) > 1 THEN [db |-> db, r |-> Ended(r, 500)]
               ELSE IF m = {} THEN [db |-> db, r |-> [r EXCEPT !.pc = "create"]]
               ELSE [db |-> db, r |-> [r EXCEPT !.pc = "add", !.tag = CHOOSE t \in m : TRUE]]
      [] r.pc = "create" ->
           [db |-> TagCreate(db, r.user, r.data.tags[r.i]),
            r |-> [r EXCEPT !.pc = "add", !.tag = db.seq.tag + 1]]
      [] r.pc = "add" ->
           [db |-> TagsAdd(db, r.pk, r.tag), r |-> AfterTag(r, r.i + 1)]
      [] r.pc = "activity" ->
           IF ActivityCreateFails(r.data.activities[r.i])
           THEN [db |-> db, r |-> Ended(r, 500)]
           ELSE [db |-> ActivityCreate(db, r.user, r.pk, r.data.activities[r.i]),
                 r |-> AfterActivity(r, r.i + 1)]
      [] r.pc = "save" ->
           [db |-> InstanceSave(db, r.pk, r.instance, r.data), r |-> Ended(r, 200)]

\* a worker takes the next store step of its request
WorkerStep(w) ==
    /\ inflight[w].pc # "done"
    /\ LET n == Step(DB, inflight[w])
       IN  /\ investments' = n.db.investments
           /\ tags' = n.db.tags
           /\ investment_tags' = n.db.investment_tags
           /\ activities' = n.db.activities
           /\ seq' = n.db.seq
           /\ inflight' = [inflight EXCEPT ![w] = n.r]
    /\ UNCHANGED <<last, served, users>>

Received(data) ==
    [user |-> ConcUser, pk |-> ConcPk, data |-> InvestmentValidated(data), pc |-> "load",
     i |-> 0, tag |-> 0, instance |-> EmptyDict, status |-> 0]

ConcInit ==
    /\ users = InitialUsers
    /\ investments = ConcStore.investments
    /\ tags = ConcStore.tags
    /\ investment_tags = ConcStore.investment_tags
    /\ activities = ConcStore.activities
    /\ seq = ConcStore.seq
    /\ last = [op |-> "none", user |-> "u1", pk |-> 0, data |-> EmptyDict,
               status |-> 0, body |-> NoBody]
    /\ served = 0
    /\ \E d1 \in ConcBodies, d2 \in ConcBodies :
          inflight = [w \in Workers |-> Received(IF w = 1 THEN d1 ELSE d2)]

ConcNext == \E w \in Workers : WorkerStep(w)

SpecConc == ConcInit /\ [][ConcNext]_vars

\* ================================================================= claims
StoreUnchanged == UNCHANGED <<investments, tags, investment_tags, activities, seq>>

InvestmentDetailOps ==
    {"investment-retrieve", "investment-update", "investment-partial-update",
     "investment-destroy"}
TagDetailOps == {"tag-retrieve", "tag-update", "tag-partial-update", "tag-destroy"}
ActivityDetailOps == {"activity-retrieve", "activity-partial-update", "activity-destroy"}

\* every row a response shows belongs to the requester
ResponseScoped ==
    /\ \A i \in last.body.investments : investments[i].user = last.user
    /\ \A t \in last.body.tags : tags[t].user = last.user
    /\ \A a \in last.body.activities : activities[a].user = last.user

\* the request just served named the key of a row of `table` that another
\* user owns, with one of `ops`
OnForeignRow(table, ops) ==
    /\ last'.op \in ops
    /\ last'.pk \in DOMAIN table
    /\ table[last'.pk].user # last'.user

\* C1 as stated: rows of another user are in no response, and a detail,
\* update or delete request on the key of another user's Investment, Tag or
\* Activity answers 404 and changes nothing.
C1_Original ==
    [][ /\ ResponseScoped'
        /\ OnForeignRow(investments, InvestmentDetailOps)
              => last'.status = 404 /\ StoreUnchanged
        /\ OnForeignRow(tags, TagDetailOps)
              => last'.status = 404 /\ StoreUnchanged
        /\ OnForeignRow(activities, ActivityDetailOps)
              => last'.status = 404 /\ StoreUnchanged ]_vars

\* C1 amended: rows of another user are in no response; a detail, update or
\* delete request on the key of another user's Investment, and an update or
\* delete request on the key of another user's Tag or any request on the key
\* of another user's Activity, answers 404 and changes nothing; a detail (GET)
\* request on a Tag key answers 405 and changes nothing.
C1_Scoping ==
    [][ /\ ResponseScoped'
        /\ OnForeignRow(investments, InvestmentDetailOps)
              => last'.status = 404 /\ StoreUnchanged
        /\ OnForeignRow(tags, TagDetailOps \ {"tag-retrieve"})
              => last'.status = 404 /\ StoreUnchanged
        /\ OnForeignRow(tags, {"tag-retrieve"})
              => last'.status = 405 /\ StoreUnchanged
        /\ OnForeignRow(activities, ActivityDetailOps)
              => last'.status = 404 /\ StoreUnchanged ]_vars

\* a user asked to delete an investment of another user, which has tags, and
\* got 404
C1_Witness ==
    /\ last.op = "investment-destroy"
    /\ last.status = 404
    /\ last.pk \in DOMAIN investments
    /\ investments[last.pk].user # last.user
    /\ TagsOf(DB, last.pk) # {}

\* C2: the owner of an Investment is the user whose request created it: a
\* new row gets the requester as owner, whatever the body says, and no
\* request changes the owner of a row.
C2_OwnerFromSession ==
    [][ /\ \A i \in DOMAIN investments' \ DOMAIN investments :
              last'.op = "investment-create" /\ investments'[i].user = last'.user
        /\ \A i \in DOMAIN investments' \cap DOMAIN investments :
              investments'[i].user = investments[i].user ]_vars

\* an investment was created by a request whose body named another user
C2_Witness ==
    /\ last.op = "investment-create"
    /\ last.status = 201
    /\ Has(last.data, "user")
    /\ last.data.user # last.user
    /\ investments[last.pk].user = last.user

\* ---- tag reconciliation
InvestmentWriteOps == {"investment-create", "investment-update", "investment-partial-update"}
InvestmentUpdateOps == {"investment-update", "investment-partial-update"}

\* at most one Tag per (name, owner)
UniqueTags ==
    \A t1, t2 \in DOMAIN tags :
        tags[t1].name = tags[t2].name /\ tags[t1].user = tags[t2].user => t1 = t2

AllNamed(tags_data) == \A i \in DOMAIN tags_data : Has(tags_data[i], "name")
NamesIn(tags_data) == {tags_data[i].name : i \in DOMAIN tags_data}

\* the Tags of a table that user owns under name n
TagsNamed(table, user, n) == {t \in DOMAIN table : table[t].user = user /\ table[t].name = n}

\* the request just served ran the tag reconciliation of an investment
\* create or update to its end, on a list of descriptors that all carry a name
ReconciledTags ==
    /\ last'.op \in InvestmentWriteOps
    /\ last'.status \in {200, 201, 500}
    /\ last'.pk \in DOMAIN investments'
    /\ Has(last'.data, "tags")
    /\ AllNamed(last'.data.tags)

\* C3: from a store with at most one Tag per (name, owner), the tag
\* reconciliation of an investment create or update resolves each name to the
\* requester's Tag of that name when there is one and otherwise creates
\* exactly one Tag of the requester with that name, also for a name given
\* twice; each resolved Tag is associated with the investment; nothing else
\* is created and no Tag row changes, so the store still has at most one Tag
\* per (name, owner).
C3_GetOrCreate ==
    [][ (UniqueTags /\ ReconciledTags) =>
          /\ \A n \in NamesIn(last'.data.tags) :
                /\ IF TagsNamed(tags, last'.user, n) # {}
                   THEN TagsNamed(tags', last'.user, n) = TagsNamed(tags, last'.user, n)
                   ELSE /\ Cardinality(TagsNamed(tags', last'.user, n)) = 1
                        /\ TagsNamed(tags', last'.user, n) \cap DOMAIN tags = {}
                /\ \A t \in TagsNamed(tags', last'.user, n) :
                      <<last'.pk, t>> \in investment_tags'
          /\ \A t \in DOMAIN tags' \ DOMAIN tags :
                tags'[t].user = last'.user /\ tags'[t].name \in NamesIn(last'.data.tags)
          /\ \A t \in DOMAIN tags : t \in DOMAIN tags' /\ tags'[t] = tags[t]
          /\ UniqueTags' ]_vars

\* an investment was created with the name "A" given twice, there is one Tag
\* "A" of the requester, and another investment has it too (it was reused)
C3_Witness ==
    /\ last.op = "investment-create"
    /\ last.status = 201
    /\ Has(last.data, "tags")
    /\ last.data.tags = <<Named("A"), Named("A")>>
    /\ Cardinality(TagsNamed(tags, last.user, "A")) = 1
    /\ \E i \in DOMAIN investments :
          i # last.pk /\ TagsOf(DB, i) = TagsOf(DB, last.pk)

\* C4: after a successful investment update whose body carries a tags list
\* of named descriptors, the tags of the investment are exactly the
\* requester's Tags with a name of the list (none for the empty list).
C4_TagsReplaced ==
    [][ ( /\ last'.op \in InvestmentUpdateOps
          /\ last'.status = 200
          /\ Has(last'.data, "tags")
          /\ AllNamed(last'.data.tags) ) =>
          TagsOf(DB', last'.pk) =
             {t \in DOMAIN tags' : /\ tags'[t].user = last'.user
                                   /\ tags'[t].name \in NamesIn(last'.data.tags)} ]_vars

\* the second request of a behaviour set the tags of an investment to ["A"],
\* and a Tag "B", which that investment had, is no longer associated with it
C4_Witness ==
    /\ last.op = "investment-partial-update"
    /\ last.status = 200
    /\ served = 2
    /\ Has(last.data, "tags")
    /\ last.data.tags = <<Named("A")>>
    /\ \E t \in DOMAIN tags : tags[t].name = "B" /\ <<last.pk, t>> \notin investment_tags
    /\ TagsOf(DB, last.pk) # {}

\* C5: an investment update whose body has no tags leaves the tag
\* associations (and the Tag rows) as they were, one whose body has no
\* activities leaves the Activity rows as they were, and a PATCH changes no
\* column of the investment that its body does not name; no update touches
\* another investment.
C5_Frame ==
    [][ last'.op \in InvestmentUpdateOps =>
          /\ ~Has(last'.data, "tags") =>
                investment_tags' = investment_tags /\ tags' = tags
          /\ ~Has(last'.data, "activities") => activities' = activities
          /\ DOMAIN investments' = DOMAIN investments
          /\ \A i \in DOMAIN investments : \A f \in DOMAIN investments[i] :
                investments'[i][f] # investments[i][f] =>
                   i = last'.pk /\ Has(last'.data, f) ]_vars

\* a PATCH naming only the ticker succeeded on an investment that has a
\* link, a tag and an activity
C5_Witness ==
    /\ last.op = "investment-partial-update"
    /\ last.status = 200
    /\ DOMAIN last.data = {"ticker"}
    /\ investments[last.pk].ticker = last.data.ticker
    /\ investments[last.pk].link # ""
    /\ TagsOf(DB, last.pk) # {}

\* C6: a successful investment update whose body carries n activity
\* descriptors leaves every Activity row that existed present and unchanged
\* and adds exactly n rows, each owned by the requester and linked to the
\* investment.
C6_ActivitiesAppend ==
    [][ ( /\ last'.op \in InvestmentUpdateOps
          /\ last'.status = 200
          /\ Has(last'.data, "activities") ) =>
          /\ \A a \in DOMAIN activities :
                a \in DOMAIN activities' /\ activities'[a] = activities[a]
          /\ Cardinality(DOMAIN activities' \ DOMAIN activities)
                = Len(last'.data.activities)
          /\ \A a \in DOMAIN activities' \ DOMAIN activities :
                /\ activities'[a].user = last'.user
                /\ activities'[a].investment = last'.pk ]_vars

\* an update with one descriptor, equal to the two activities the investment
\* had, left it with three
C6_Witness ==
    /\ last.op = "investment-partial-update"
    /\ last.status = 200
    /\ Has(last.data, "activities")
    /\ last.data.activities = <<Buy>>
    /\ Cardinality(ActivitiesOf(DB, last.pk)) = 3
    /\ \A a \in ActivitiesOf(DB, last.pk) : activities[a].shares = Buy.shares

\* ---- failures and validation
\* C7: an investment create or update that fails after its reconciliation
\* has begun (the handler raised: the response is a 500) leaves the store
\* exactly as it was before the request.
C7_FailedRequestChangesNothing ==
    [][ (last'.op \in InvestmentWriteOps /\ last'.status = 500) => StoreUnchanged ]_vars

\* the parts of a body that C9 calls invalid: no ticker on create, a tag
\* descriptor without name, an activity descriptor that lacks one of its four
\* fields or whose activity_type is not BUY or SELL
InvalidPart(op, data) ==
    \/ op = "investment-create" /\ ~Has(data, "ticker")
    \/ Has(data, "tags") /\ \E i \in DOMAIN data.tags : ~Has(data.tags[i], "name")
    \/ /\ Has(data, "activities")
       /\ \E i \in DOMAIN data.activities :
             \/ \E f \in ActivityFields : ~Has(data.activities[i], f)
             \/ /\ Has(data.activities[i], "activity_type")
                /\ data.activities[i].activity_type \notin ACTIVITY_CHOICES

\* C9: an investment create or update (on an investment of the requester)
\* whose body has an invalid part is answered 400 and writes nothing.
C9_ValidationFirst ==
    [][ ( /\ last'.op \in InvestmentWriteOps
          /\ InvalidPart(last'.op, last'.data)
          /\ last'.status # 404 ) =>
          last'.status = 400 /\ StoreUnchanged ]_vars

\* C10: an upload-image request on an investment of the requester is
\* answered 200 only for a valid image; a body without image or with a value
\* that is no image is answered 400 and changes nothing.
C10_UploadRejectsNonImages ==
    [][ (last'.op = "investment-upload-image" /\ last'.status # 404) =>
          IF Has(last'.data, "image") /\ last'.data.image = "jpeg"
          THEN last'.status = 200
          ELSE last'.status = 400 /\ StoreUnchanged ]_vars

\* ---- concurrent updates
\* what C8 compares: the scalar columns of the investments, the names of the
\* tags of each investment, and the activities of each investment (as the
\* number of rows with each content)
Observable(db) ==
    [scalars |-> db.investments,
     tagnames |-> [i \in DOMAIN db.investments |->
                      {db.tags[t].name : t \in TagsOf(db, i)}],
     activities |-> [i \in DOMAIN db.investments |->
                      [row \in {db.activities[a] : a \in ActivitiesOf(db, i)} |->
                          Cardinality({a \in ActivitiesOf(db, i) : db.activities[a] = row})]]]

\* the store after serving body d1 and then body d2, one after the other
Serial(d1, d2) ==
    UpdateHandler(UpdateHandler(ConcStore, ConcUser, ConcPk, TRUE, d1).db,
                  ConcUser, ConcPk, TRUE, d2).db

\* C8: when two update requests on one investment have both been served,
\* with their store steps interleaved, the tags, activities and scalar
\* columns are those of serving the two one after the other, in one of the
\* two orders.
C8_Serializable ==
    (\A w \in Workers : inflight[w].pc = "done") =>
        \/ Observable(DB) = Observable(Serial(inflight[1].data, inflight[2].data))
        \/ Observable(DB) = Observable(Serial(inflight[2].data, inflight[1].data))

\* ---- authentication and routing
\* C11: every request without an authenticated user, on any endpoint and
\* with any method, is answered 401 and changes no stored state.
C11_Unauthenticated401 ==
    [][ last'.op = "unauthenticated" =>
          last'.status = 401 /\ StoreUnchanged /\ UNCHANGED users ]_vars

\* C12: for an authenticated user GET on the activity list answers 200 with
\* exactly the activities the requester owns, and PATCH on the detail URL of
\* an activity the requester owns answers 200.
C12_ActivitiesServed ==
    [][ /\ last'.op = "activity-list" =>
              /\ last'.status = 200
              /\ last'.body.activities = ActivityQueryset(DB', last'.user)
        /\ ( /\ last'.op = "activity-partial-update"
             /\ last'.pk \in ActivityQueryset(DB, last'.user) ) =>
              last'.status = 200 ]_vars

\* ---- deletion
\* every reference of a row leads to a row that exists
RefsValid ==
    /\ \A i \in DOMAIN investments : investments[i].user \in DOMAIN users
    /\ \A t \in DOMAIN tags : tags[t].user \in DOMAIN users
    /\ \A a \in DOMAIN activities :
          /\ activities[a].user \in DOMAIN users
          /\ activities[a].investment \in DOMAIN investments
    /\ \A r \in investment_tags : r[1] \in DOMAIN investments /\ r[2] \in DOMAIN tags

\* table2 is table without the rows that satisfy gone, the others unchanged
Removed(table, table2, gone(_)) ==
    /\ DOMAIN table2 = {k \in DOMAIN table : ~gone(k)}
    /\ \A k \in DOMAIN table2 : table2[k] = table[k]

\* C13: DELETE on an investment of the requester removes that investment and
\* every Activity linked to it and no other Investment or Activity; deleting
\* a User removes every Investment, Tag and Activity the user owns and no
\* other; after every step no Activity refers to a missing Investment and no
\* row refers to a missing User.
C13_Cascade ==
    [][ /\ (last'.op = "investment-destroy" /\ last'.status = 204) =>
              LET inv(i) == i = last'.pk
                  ofinv(a) == activities[a].investment = last'.pk
              IN  /\ last'.pk \in DOMAIN investments
                  /\ Removed(investments, investments', inv)
                  /\ Removed(activities, activities', ofinv)
        /\ last'.op = "user-delete" =>
              LET iown(i) == investments[i].user = last'.user
                  town(t) == tags[t].user = last'.user
                  aown(a) == activities[a].user = last'.user
              IN  /\ last'.user \notin DOMAIN users'
                  /\ Removed(investments, investments', iown)
                  /\ Removed(tags, tags', town)
                  /\ Removed(activities, activities', aown)
        /\ RefsValid' ]_vars

\* an investment was deleted, some Activity rows went with it and those of
\* another investment are still there
C13_Witness ==
    /\ last.op = "investment-destroy"
    /\ last.status = 204
    /\ DOMAIN activities # {}
    /\ Cardinality(DOMAIN activities) < seq.activity

\* C14: a Tag row disappears only by a DELETE of that tag or by the deletion
\* of the user that owns it: no investment create, update or delete removes
\* a Tag row, also when it leaves the tag with no investment.
C14_TagsNotAutoDeleted ==
    [][ \A t \in DOMAIN tags \ DOMAIN tags' :
           \/ last'.op = "tag-destroy" /\ last'.pk = t /\ last'.status = 204
           \/ last'.op = "user-delete" /\ last'.user = tags[t].user ]_vars

\* an update with `tags: []` succeeded on the only investment, and the Tag
\* rows are still there, associated with nothing
C14_Witness ==
    /\ last.op = "investment-partial-update"
    /\ last.status = 200
    /\ Has(last.data, "tags")
    /\ last.data.tags = <<>>
    /\ DOMAIN tags # {}
    /\ investment_tags = {}

\* ---- users
\* C15: create_user stores the address with the part after the last '@'
\* lower-cased and every character up to it as given (an address without '@'
\* as given); with an empty address it raises ValueError and stores no user.
C15_EmailNormalized ==
    [][ last'.op = "create-user" =>
          LET email == last'.data.email
              at == LastAt(email)
          IN  IF email = <<>>
              THEN last'.data.raised = "ValueError" /\ users' = users
              ELSE /\ last'.data.raised \in {"", "IntegrityError"}
                   /\ last'.data.raised = "IntegrityError" => users' = users
                   /\ last'.data.raised = "" =>
                         /\ last'.user \notin DOMAIN users
                         /\ DOMAIN users' = DOMAIN users \cup {last'.user}
                         /\ \A u \in DOMAIN users : users'[u] = users[u]
                         /\ Len(users'[last'.user]) = Len(email)
                         /\ \A i \in DOMAIN email :
                               users'[last'.user][i] =
                                  IF at > 0 /\ i > at THEN Lower(email[i]) ELSE email[i]
    ]_vars

\* Test2@Example.com was given and Test2@example.com is stored
C15_Witness ==
    /\ last.op = "create-user"
    /\ last.data.email = SampleEmail
    /\ last.user \in DOMAIN users
    /\ users[last.user] =
          <<"T", "e", "s", "t", "2", "@", "e", "x", "a", "m", "p", "l", "e", ".", "c", "o", "m">>

\* ---- tag de-duplication
\* C16: in every state reachable by requests served one after the other,
\* each user has at most one Tag per name.
C16_OneTagPerName ==
    \A u \in Users : \A n \in {tags[t].name : t \in DOMAIN tags} :
        Cardinality(TagsNamed(tags, u, n)) <= 1

\* C17: when two concurrent update requests of one user have both been
\* served, with the lookup and the insert of get_or_create as separate store
\* steps, the user has at most one Tag of each name.
C17_ConcurrentDedup ==
    (\A w \in Workers : inflight[w].pc = "done") =>
        \A n \in TagNames : Cardinality(TagsNamed(tags, ConcUser, n)) <= 1

\* ---- ownership
\* every Tag associated with an Investment and every Activity linked to an
\* Investment has the owner of that Investment
OwnershipConsistent ==
    /\ \A r \in investment_tags : tags[r[2]].user = investments[r[1]].user
    /\ \A a \in DOMAIN activities :
          activities[a].user = investments[activities[a].investment].user

\* the rows of table that user does not own are in table2, unchanged
OthersKept(table, table2, user) ==
    \A k \in DOMAIN table :
        table[k].user # user => k \in DOMAIN table2 /\ table2[k] = table[k]

\* every row of table2 that is not in table belongs to user
NewOwnedBy(table, table2, user) ==
    \A k \in DOMAIN table2 \ DOMAIN table : table2[k].user = user

\* C18: after every request the Tags and Activities of an Investment have its
\* owner; a request creates rows only for its requester, changes no row of
\* another user and no tag association of another user's investment.
C18_OwnershipConsistent ==
    [][ /\ OwnershipConsistent'
        /\ OthersKept(investments, investments', last'.user)
        /\ OthersKept(tags, tags', last'.user)
        /\ OthersKept(activities, activities', last'.user)
        /\ NewOwnedBy(investments, investments', last'.user)
        /\ NewOwnedBy(tags, tags', last'.user)
        /\ NewOwnedBy(activities, activities', last'.user)
        /\ \A i \in DOMAIN investments :
              investments[i].user # last'.user => TagsOf(DB', i) = TagsOf(DB, i) ]_vars

\* a user created an investment with the tag name "A", which another user
\* has on an investment: there are two Tags "A", each on its owner's investment
C18_Witness ==
    /\ last.op = "investment-create"
    /\ last.status = 201
    /\ \E t1, t2 \in DOMAIN tags :
          /\ tags[t1].name = "A" /\ tags[t2].name = "A"
          /\ tags[t1].user = last.user /\ tags[t2].user # last.user
          /\ <<last.pk, t1>> \in investment_tags
          /\ \E i \in DOMAIN investments : <<i, t2>> \in investment_tags

====
